---- MODULE Spec2Model ----
(***************************************************************************)
(* Model of the sitemap-scraper worker (src/src/index.ts): the HTTP        *)
(* handler that creates workflow instances and the five durable steps of   *)
(* MyWorkflow.run, executed by a durable runtime that memoizes committed   *)
(* step results, retries a raising step within its budget and replays      *)
(* run() from the top after a crash.                                       *)
(*                                                                         *)
(* Strings are sequences of tokens: a token is a separator character       *)
(* ("/", ".", ":", "_", "-") or a run of characters that no operation of    *)
(* the program splits.                                                     *)
(***************************************************************************)
EXTENDS Integers, Sequences, FiniteSets, TLC

\* ------------------------------------------------------------------ bounds
\* Workflow instances the runtime may hold.
MaxInstances == 2
\* The runtime's retry budget for a step without an explicit configuration.
MaxRetries == 1
\* Crashes (forced restarts) of one instance.
MaxCrashes == 1
\* Last instant of the wall clock.
MaxClock == 1
\* <loc> and anchor entries of the long sitemap documents.
MaxLoc == 6
MaxAnchor == 6
\* Length of the exhaustively enumerated short sitemap documents.
MaxDocLen == 3

\* --------------------------------------------------------- program constants
\* retries.limit of 'Fetch & Parse Sitemap'.
FetchRetryLimit == 0
\* allUrls.slice(0, 10).
UrlCap == 10

\* ------------------------------------------------------------------ strings
RECURSIVE Split(_, _)
\* String.prototype.split(sep): the pieces between the separators, empty
\* pieces kept ("".split("/") is [""]).
Split(s, sep) ==
  IF s = <<>> THEN << <<>> >>
  ELSE LET rest == Split(Tail(s), sep)
       IN IF Head(s) = sep
          THEN << <<>> >> \o rest
          ELSE << <<Head(s)>> \o Head(rest) >> \o Tail(rest)

\* String.prototype.replace(/[..]/g, to): every token of `from` becomes `to`.
ReplaceAll(s, from, to) ==
  [k \in 1..Len(s) |-> IF s[k] \in from THEN to ELSE s[k]]

\* (url.split('/').filter(Boolean).pop() || 'index') + '.md'
FileNameOf(url) ==
  LET segs == SelectSeq(Split(url, "/"), LAMBDA x : x # <<>>)
  IN (IF segs = <<>> THEN <<"index">> ELSE segs[Len(segs)]) \o <<".", "md">>

\* sitemapUrl.split('/')[2]: undefined when the URL has fewer than three pieces.
HasHost(url) == Len(Split(url, "/")) >= 3

\* sitemapUrl.split('/')[2].replace(/\./g, '_')
DomainOf(url) == ReplaceAll(Split(url, "/")[3], {"."}, "_")

\* new Date(t).toISOString(): date, 'T', hh:mm:ss.mmm, 'Z'.
IsoString(t) == <<"2025-01-01T00", ":", "00", ":", ToString(t), ".", "000Z">>

\* new Date().toISOString().replace(/[:.]/g, '-')
TimeStamp(t) == ReplaceAll(IsoString(t), {":", "."}, "-")

\* `${domain}_${now}.zip`
ZipNameOf(url, t) == DomainOf(url) \o <<"_">> \o TimeStamp(t) \o <<".", "zip">>

PublicPrefix == <<"https:", "/", "/", "pub-afa698db43a7418f8073ed229786891d.r2.dev", "/">>

\* Mutant: the URL names a fixed object, whatever the archive is called.
DownloadUrlFixed(zipName) == PublicPrefix \o <<"archive", ".", "zip">>

\* `https://pub-....r2.dev/${uploadResult.zipName}`
DownloadUrlOf(zipName) == PublicPrefix \o zipName

\* ----------------------------------------------------------- sitemap parsing
\* A sitemap document is a sequence of elements: <loc>url</loc>, <a href="url">
\* or other text.
Loc(u) == [tag |-> "loc", url |-> u]
Anchor(u) == [tag |-> "a", url |-> u]
Text == [tag |-> "text", url |-> <<>>]

\* [...xml.matchAll(re)].map(m => m[1]) for one of the two patterns.
Matches(xml, tag) ==
  LET hits == SelectSeq(xml, LAMBDA e : e.tag = tag)
  IN [k \in 1..Len(hits) |-> hits[k].url]

RECURSIVE SetOrder(_, _)
\* [...new Set(seq)]: a Set keeps each value once, in insertion order.
SetOrder(seq, seen) ==
  IF seq = <<>> THEN <<>>
  ELSE IF Head(seq) \in seen THEN SetOrder(Tail(seq), seen)
  ELSE <<Head(seq)>> \o SetOrder(Tail(seq), seen \cup {Head(seq)})

\* Mutant: one scan of the document, both forms in document order.
AllUrlsDocOrder(xml) ==
  LET hits == SelectSeq(xml, LAMBDA e : e.tag \in {"loc", "a"})
  IN SetOrder([k \in 1..Len(hits) |-> hits[k].url], {})

\* const allUrls = [...new Set([...locUrls, ...aTags])]
AllUrls(xml) == SetOrder(Matches(xml, "loc") \o Matches(xml, "a"), {})

\* Array.prototype.slice(0, n)
Slice(seq, n) == SubSeq(seq, 1, IF Len(seq) < n THEN Len(seq) ELSE n)

\* ------------------------------------------------------------ archive
\* strToU8(content): the text's bytes.
StrToU8(content) == [u8 |-> content]

RECURSIVE ZipEntries(_)
\* for (const {fileName, content} of scrapedPages) zipEntries[fileName] = strToU8(content):
\* an object keeps one value per key, the last one assigned.
ZipEntries(pages) ==
  IF pages = <<>> THEN {}
  ELSE LET last == pages[Len(pages)]
           before == ZipEntries(SubSeq(pages, 1, Len(pages) - 1))
       IN {e \in before : e.name # last.fileName}
            \cup {[name |-> last.fileName, bytes |-> StrToU8(last.content)]}

\* zipSync(zipEntries): one blob holding the entries.
ZipSync(entries) == [zip |-> entries]

RECURSIVE ZipLength(_)
\* zipData.length: grows with every entry's name and bytes.
ZipLength(entries) ==
  IF entries = {} THEN 0
  ELSE LET e == CHOOSE x \in entries : TRUE
       IN Len(e.name) + Len(e.bytes.u8) + ZipLength(entries \ {e})

\* scrapedPages.map(p => p.fileName)
FileList(pages) == [k \in 1..Len(pages) |-> pages[k].fileName]

\* ------------------------------------------------------------ values
\* JavaScript values a request body's sitemapUrl may hold.
Undefined == [type |-> "undefined", val |-> <<>>]
Num(n) == [type |-> "number", val |-> <<ToString(n)>>]
Str(s) == [type |-> "string", val |-> s]

\* !url: undefined, 0 and "" are falsy.
Falsy(v) ==
  \/ v.type = "undefined"
  \/ v.type = "number" /\ v.val = <<"0">>
  \/ v.type = "string" /\ v.val = <<>>

\* Mutant: the typeof test is left out.
InvalidFalsyOnly(v) == Falsy(v)

\* !url || typeof url !== 'string'
Invalid(v) == Falsy(v) \/ v.type # "string"

UrlA == <<"https:", "/", "/", "a", ".", "com", "/", "sitemap", ".", "xml">>
UrlB == <<"https:", "/", "/", "b", ".", "org", "/", "sitemap", ".", "xml">>
PageX == <<"https:", "/", "/", "a", ".", "com", "/", "x", "/", "p">>
PageY == <<"https:", "/", "/", "a", ".", "com", "/", "y", "/", "p">>
PageQ == <<"https:", "/", "/", "a", ".", "com", "/", "q">>
Page(k) == <<"https:", "/", "/", "a", ".", "com", "/", ToString(k)>>

\* ------------------------------------------------------------ state
Ids == 1..MaxInstances
Steps == 1..5

\* The names given to step.do, in the order run() calls it.
StepName ==
  <<"Get Sitemap URL", "Fetch & Parse Sitemap", "Scrape Pages",
    "Zip and Upload to R2", "Generate Result">>

VARIABLES
  status,   \* instance.status(): none (not created), queued, running, complete, errored
  payload,  \* event.payload.sitemapUrl of each instance
  log,      \* the runtime's persisted step results, by step
  fails,    \* the runtime's count of failed attempts of the step in progress
  error,    \* the message of the error that ended run()
  output,   \* the value run() returned
  pos,      \* the step.do call run() has reached (6: past the last one)
  phase,    \* the position inside that step's body
  mem,      \* the locals of run() and of the running body (lost in a crash)
  bucket,   \* MY_BUCKET: the objects stored, by name
  clock,    \* the wall clock
  http,     \* the last request the fetch handler answered, and its response
  crashes,  \* forced restarts of each instance so far
  hist      \* per instance: body invocations, raises, requests, puts and pages scraped so far,
            \* and the number of links the last parse found

vars == <<status, payload, log, fails, error, output, pos, phase, mem, bucket,
          clock, http, crashes, hist>>

NoResult == [done |-> FALSE, val |-> <<>>]
NoUpload == [zipName |-> <<>>, files |-> <<>>, size |-> 0]
NoOutput == [downloadUrl |-> <<>>]
NoZip == [zip |-> {}]

EmptyMem ==
  [sitemapUrl |-> <<>>, pageUrls |-> <<>>, scrapedPages |-> <<>>,
   uploadResult |-> NoUpload, finalResult |-> NoOutput,
   xml |-> <<>>, out |-> <<>>, idx |-> 0, seen |-> <<>>, zipName |-> <<>>, zipData |-> NoZip,
   lastEv |-> "none"]

NoHist ==
  [starts |-> [s \in Steps |-> 0], raises |-> [s \in Steps |-> 0],
   nFetch |-> 0, nReq |-> 0, nPut |-> 0, found |-> 0, scraped |-> {}]

NoHttp == [req |-> "none", arg |-> Undefined, code |-> 0, id |-> 0, status |-> "none"]

Init ==
  /\ status = [i \in Ids |-> "none"]
  /\ payload = [i \in Ids |-> Undefined]
  /\ log = [i \in Ids |-> [s \in Steps |-> NoResult]]
  /\ fails = [i \in Ids |-> 0]
  /\ error = [i \in Ids |-> <<>>]
  /\ output = [i \in Ids |-> NoOutput]
  /\ pos = [i \in Ids |-> 0]
  /\ phase = [i \in Ids |-> "call"]
  /\ mem = [i \in Ids |-> EmptyMem]
  /\ bucket = {}
  /\ clock = 0
  /\ http = NoHttp
  /\ crashes = [i \in Ids |-> 0]
  /\ hist = [i \in Ids |-> NoHist]

\* ------------------------------------------------------------ the runtime
\* Mutant: the runtime forgets what it committed and runs every step again.
MemoMiss(i, s) == FALSE

\* step.do(name, ...): a step whose result is committed under its name is not
\* run again; its committed result is returned.
MemoHit(i, s) == log[i][s].done

\* Mutant: the sitemap step runs under the default budget, like the others.
RetryLimitDefault(s) == MaxRetries

\* Mutant: no step is attempted again.
RetryLimitNone(s) == 0

\* The retry budget of a step: 'Fetch & Parse Sitemap' sets retries.limit,
\* the other steps run under the runtime's default.
RetryLimit(s) == IF s = 2 THEN FetchRetryLimit ELSE MaxRetries

\* The step names the catch blocks write into their messages.
CatchName ==
  <<"Get Sitemap URL", "Fetch & Parse Sitemap", "Scrape Pages",
    "Zip and Upload to R2", "Generate Result">>

\* Mutant: the catch block rethrows the error as it caught it.
CatchBare(s, detail) == detail

\* catch (err) { throw new Error(`<step> failed: ${err.message}`) }
CatchMessage(s, detail) == <<CatchName[s], " failed:", " ">> \o detail

Running(i, s, ph) == status[i] = "running" /\ pos[i] = s /\ phase[i] = ph

\* The body's own locals go when the body ends.
ResetBody(m) ==
  [m EXCEPT !.xml = <<>>, !.out = <<>>, !.idx = 0, !.seen = <<>>,
            !.zipName = <<>>, !.zipData = NoZip, !.lastEv = "none"]

\* const <local> = await step.do(...)
SetLocal(m, s, v) ==
  CASE s = 1 -> [m EXCEPT !.sitemapUrl = v]
    [] s = 2 -> [m EXCEPT !.pageUrls = v]
    [] s = 3 -> [m EXCEPT !.scrapedPages = v]
    [] s = 4 -> [m EXCEPT !.uploadResult = v]
    [] s = 5 -> [m EXCEPT !.finalResult = v]

\* Mutant: the step log is keyed by the step alone, so a commit lands in
\* every instance's log.
CommitShared(i, s, v) ==
  /\ log' = [j \in Ids |-> [log[j] EXCEPT ![s] = [done |-> TRUE, val |-> v]]]
  /\ fails' = [fails EXCEPT ![i] = 0]
  /\ pos' = [pos EXCEPT ![i] = s + 1]
  /\ phase' = [phase EXCEPT ![i] = "call"]
  /\ mem' = [mem EXCEPT ![i] = ResetBody(SetLocal(@, s, v))]
  /\ UNCHANGED <<status, error>>

\* The body returned v: the runtime commits it and run() goes on.
Commit(i, s, v) ==
  /\ log' = [log EXCEPT ![i][s] = [done |-> TRUE, val |-> v]]
  /\ fails' = [fails EXCEPT ![i] = 0]
  /\ pos' = [pos EXCEPT ![i] = s + 1]
  /\ phase' = [phase EXCEPT ![i] = "call"]
  /\ mem' = [mem EXCEPT ![i] = ResetBody(SetLocal(@, s, v))]
  /\ UNCHANGED <<status, error>>

\* Mutant: an error that exhausts the budget is lost and run() goes on to the
\* next step.
RaiseLost(i, s, detail) ==
  /\ IF fails[i] < MaxRetries
     THEN /\ fails' = [fails EXCEPT ![i] = @ + 1]
          /\ UNCHANGED pos
     ELSE /\ fails' = [fails EXCEPT ![i] = 0]
          /\ pos' = [pos EXCEPT ![i] = s + 1]
  /\ phase' = [phase EXCEPT ![i] = "call"]
  /\ mem' = [mem EXCEPT ![i] = ResetBody(@)]
  /\ UNCHANGED <<log, status, error>>

\* The body threw: the runtime attempts the step again while its budget
\* lasts, and otherwise run() rejects and the instance is errored.
Raise(i, s, detail) ==
  /\ IF fails[i] < RetryLimit(s)
     THEN /\ fails' = [fails EXCEPT ![i] = @ + 1]
          /\ phase' = [phase EXCEPT ![i] = "call"]
          /\ UNCHANGED <<status, error>>
     ELSE /\ status' = [status EXCEPT ![i] = "errored"]
          /\ error' = [error EXCEPT ![i] = CatchMessage(s, detail)]
          /\ phase' = [phase EXCEPT ![i] = "thrown"]
          /\ UNCHANGED fails
  /\ mem' = [mem EXCEPT ![i] = ResetBody(@)]
  /\ UNCHANGED <<log, pos>>

Started(h, s) == [h EXCEPT !.starts[s] = @ + 1]
Raised(h, s) == [h EXCEPT !.raises[s] = @ + 1]

\* ------------------------------------------------------------ the handler
\* env.MY_WORKFLOW.create({ params }): the runtime assigns an id not in use,
\* here the least one of `ids`.
FreeIds(ids) == {i \in ids : status[i] = "none"}
NextId(ids) == CHOOSE i \in FreeIds(ids) : \A j \in FreeIds(ids) : i <= j

CreateInstance(i, v) ==
  /\ status' = [status EXCEPT ![i] = "queued"]
  /\ payload' = [payload EXCEPT ![i] = v]

\* POST: the create workflow endpoint.
Create(v, ids) ==
  IF Invalid(v)
  THEN /\ http' = [req |-> "create", arg |-> v, code |-> 400, id |-> 0, status |-> "none"]
       /\ UNCHANGED <<status, payload, log, fails, error, output, pos, phase, mem,
                      bucket, clock, crashes, hist>>
  ELSE /\ FreeIds(ids) # {}
       /\ CreateInstance(NextId(ids), v)
       /\ http' = [req |-> "create", arg |-> v, code |-> 200, id |-> NextId(ids),
                   status |-> "queued"]
       /\ UNCHANGED <<log, fails, error, output, pos, phase, mem, bucket, clock,
                      crashes, hist>>

\* An instance created through the workflow binding directly, with any payload.
Trigger(v, ids) ==
  /\ FreeIds(ids) # {}
  /\ CreateInstance(NextId(ids), v)
  /\ UNCHANGED <<log, fails, error, output, pos, phase, mem, bucket, clock, http,
                 crashes, hist>>

\* instance.id as the handler reads it from the query string.
IdStr(i) == <<"wf", ToString(i)>>

\* The instances env.MY_WORKFLOW holds under the id q.
Holding(q) == {i \in Ids : status[i] # "none" /\ IdStr(i) = q.val}

\* GET /status?id=...: no id is refused; env.MY_WORKFLOW.get(id) may reject,
\* which the handler's catch answers 500, may resolve to nothing, answered
\* 404, or resolves to the instance, answered with its id and status.
\* For an id the runtime does not hold, `found` tells whether get resolves
\* (to nothing) or rejects; for an id it holds, whether it resolves or the
\* lookup fails.
StatusLookup(q, found) ==
  /\ http' =
       IF Falsy(q)
       THEN [req |-> "status", arg |-> q, code |-> 400, id |-> 0, status |-> "none"]
       ELSE IF ~found
       THEN [req |-> "status", arg |-> q, code |-> 500, id |-> 0, status |-> "none"]
       ELSE IF Holding(q) = {}
       THEN [req |-> "status", arg |-> q, code |-> 404, id |-> 0, status |-> "none"]
       ELSE LET i == CHOOSE j \in Holding(q) : TRUE
            IN [req |-> "status", arg |-> q, code |-> 200, id |-> i,
                status |-> status[i]]
  /\ UNCHANGED <<status, payload, log, fails, error, output, pos, phase, mem,
                 bucket, clock, crashes, hist>>

\* ------------------------------------------------------------ run()
\* The runtime starts run(event, step).
Start(i) ==
  /\ status[i] = "queued"
  /\ status' = [status EXCEPT ![i] = "running"]
  /\ pos' = [pos EXCEPT ![i] = 1]
  /\ UNCHANGED <<payload, log, fails, error, output, phase, mem, bucket, clock,
                 http, crashes, hist>>

\* Mutant: run() waits for ever on a step whose result is committed.
ReplayStuck(i) ==
  /\ status[i] = "running" /\ phase[i] = "call" /\ pos[i] \in Steps
  /\ MemoHit(i, pos[i])
  /\ UNCHANGED vars

\* step.do on a committed step: run() takes the committed result.
Replay(i) ==
  /\ status[i] = "running" /\ phase[i] = "call" /\ pos[i] \in Steps
  /\ MemoHit(i, pos[i])
  /\ mem' = [mem EXCEPT ![i] = SetLocal(@, pos[i], log[i][pos[i]].val)]
  /\ pos' = [pos EXCEPT ![i] = @ + 1]
  /\ UNCHANGED <<status, payload, log, fails, error, output, phase, bucket, clock,
                 http, crashes, hist>>

\* Step 1: Get Sitemap URL.
GetSitemapUrl(i) ==
  /\ Running(i, 1, "call") /\ ~MemoHit(i, 1)
  /\ LET url == payload[i]
     IN IF Invalid(url)
        THEN /\ Raise(i, 1, <<"sitemapUrl is missing or invalid.">>)
             /\ hist' = [hist EXCEPT ![i] = Raised(Started(@, 1), 1)]
        ELSE /\ Commit(i, 1, url.val)
             /\ hist' = [hist EXCEPT ![i] = Started(@, 1)]
  /\ UNCHANGED <<payload, output, bucket, clock, http, crashes>>

\* Step 2: fetch(sitemapUrl) is issued.
FetchCall(i) ==
  /\ Running(i, 2, "call") /\ ~MemoHit(i, 2)
  /\ phase' = [phase EXCEPT ![i] = "await"]
  /\ hist' = [hist EXCEPT ![i] = [Started(@, 2) EXCEPT !.nFetch = @ + 1]]
  /\ UNCHANGED <<status, payload, log, fails, error, output, pos, mem, bucket,
                 clock, http, crashes>>

\* Step 2: the response arrives; a response that is not ok throws.
FetchRespond(i, r) ==
  /\ Running(i, 2, "await")
  /\ IF ~r.ok
     THEN /\ Raise(i, 2, <<"Failed to fetch sitemap: ", r.code>>)
          /\ hist' = [hist EXCEPT ![i] = Raised(@, 2)]
     ELSE /\ mem' = [mem EXCEPT ![i].xml = r.body]
          /\ phase' = [phase EXCEPT ![i] = "parse"]
          /\ UNCHANGED <<status, log, fails, error, pos, hist>>
  /\ UNCHANGED <<payload, output, bucket, clock, http, crashes>>

\* Step 2: the links of the body, deduplicated and cut to the first ten.
ParseSitemap(i) ==
  /\ Running(i, 2, "parse")
  /\ LET allUrls == AllUrls(mem[i].xml)
     IN IF Len(allUrls) = 0
        THEN /\ Raise(i, 2, <<"No URLs found in sitemap.">>)
             /\ hist' = [hist EXCEPT ![i] = [Raised(@, 2) EXCEPT !.found = 0]]
        ELSE /\ Commit(i, 2, Slice(allUrls, UrlCap))
             /\ hist' = [hist EXCEPT ![i].found = Len(allUrls)]
  /\ UNCHANGED <<payload, output, bucket, clock, http, crashes>>

\* Step 3: the body starts with an empty list.
ScrapeStart(i) ==
  /\ Running(i, 3, "call") /\ ~MemoHit(i, 3)
  /\ mem' = [mem EXCEPT ![i].out = <<>>, ![i].idx = 1, ![i].seen = <<>>]
  /\ phase' = [phase EXCEPT ![i] = "loop"]
  /\ hist' = [hist EXCEPT ![i] = Started(@, 3)]
  /\ UNCHANGED <<status, payload, log, fails, error, output, pos, bucket, clock,
                 http, crashes>>

\* Step 3: the extraction request for the next URL is issued.
ScrapeRequest(i) ==
  /\ Running(i, 3, "loop")
  /\ mem[i].idx <= Len(mem[i].pageUrls)
  /\ phase' = [phase EXCEPT ![i] = "wait"]
  /\ mem' = [mem EXCEPT ![i].lastEv = "req"]
  /\ hist' = [hist EXCEPT ![i].nReq = @ + 1]
  /\ UNCHANGED <<status, payload, log, fails, error, output, pos, bucket, clock,
                 http, crashes>>

\* Mutant: a response that is not ok ends the loop (break for continue).
ScrapeRespondBreak(i, r) ==
  /\ Running(i, 3, "wait")
  /\ LET url == mem[i].pageUrls[mem[i].idx]
         got == Append(mem[i].seen, [url |-> url, ok |-> r.ok, markdown |-> r.markdown])
     IN IF ~r.ok
        THEN /\ mem' = [mem EXCEPT ![i].idx = Len(mem[i].pageUrls) + 1, ![i].seen = got]
             /\ phase' = [phase EXCEPT ![i] = "loop"]
        ELSE /\ mem' = [mem EXCEPT ![i].out =
                          Append(@, [fileName |-> FileNameOf(url),
                                     content |-> r.markdown]),
                                   ![i].seen = got]
             /\ phase' = [phase EXCEPT ![i] = "pause"]
  /\ hist' = [hist EXCEPT ![i].scraped =
                IF r.ok THEN @ \cup {mem[i].pageUrls[mem[i].idx]} ELSE @]
  /\ UNCHANGED <<status, payload, log, fails, error, output, pos, bucket, clock,
                 http, crashes>>

\* Step 3: the response arrives: not ok is logged and skipped (continue),
\* ok adds the page and goes on to the pause.
ScrapeRespond(i, r) ==
  /\ Running(i, 3, "wait")
  /\ LET url == mem[i].pageUrls[mem[i].idx]
         got == Append(mem[i].seen, [url |-> url, ok |-> r.ok, markdown |-> r.markdown])
     IN IF ~r.ok
        THEN /\ mem' = [mem EXCEPT ![i].idx = @ + 1, ![i].seen = got]
             /\ phase' = [phase EXCEPT ![i] = "loop"]
        ELSE /\ mem' = [mem EXCEPT ![i].out =
                          Append(@, [fileName |-> FileNameOf(url),
                                     content |-> r.markdown]),
                                   ![i].seen = got]
             /\ phase' = [phase EXCEPT ![i] = "pause"]
  /\ hist' = [hist EXCEPT ![i].scraped =
                IF r.ok THEN @ \cup {mem[i].pageUrls[mem[i].idx]} ELSE @]
  /\ UNCHANGED <<status, payload, log, fails, error, output, pos, bucket, clock,
                 http, crashes>>

\* Mutant: after the pause the loop stays at the same URL.
ScrapePauseStay(i) ==
  /\ Running(i, 3, "pause")
  /\ mem' = [mem EXCEPT ![i].lastEv = "pause"]
  /\ phase' = [phase EXCEPT ![i] = "loop"]
  /\ UNCHANGED <<status, payload, log, fails, error, output, pos, bucket, clock,
                 http, crashes, hist>>

\* Step 3: setTimeout(resolve, 3000) fires.
ScrapePause(i) ==
  /\ Running(i, 3, "pause")
  /\ mem' = [mem EXCEPT ![i].idx = @ + 1, ![i].lastEv = "pause"]
  /\ phase' = [phase EXCEPT ![i] = "loop"]
  /\ UNCHANGED <<status, payload, log, fails, error, output, pos, bucket, clock,
                 http, crashes, hist>>

\* Step 3: past the last URL.
ScrapeEnd(i) ==
  /\ Running(i, 3, "loop")
  /\ mem[i].idx > Len(mem[i].pageUrls)
  /\ IF Len(mem[i].out) = 0
     THEN /\ Raise(i, 3, <<"Scraping failed for all pages.">>)
          /\ hist' = [hist EXCEPT ![i] = Raised(@, 3)]
     ELSE /\ Commit(i, 3, mem[i].out)
          /\ UNCHANGED hist
  /\ UNCHANGED <<payload, output, bucket, clock, http, crashes>>

\* Step 4: the archive is built and named, and the put is issued.
ZipStart(i) ==
  /\ Running(i, 4, "call") /\ ~MemoHit(i, 4)
  /\ \E t \in clock..MaxClock :
       /\ clock' = t
       /\ IF ~HasHost(mem[i].sitemapUrl)
          THEN /\ Raise(i, 4, <<"Cannot read properties of undefined">>)
               /\ hist' = [hist EXCEPT ![i] = Raised(Started(@, 4), 4)]
          ELSE /\ mem' = [mem EXCEPT
                      ![i].zipData = ZipSync(ZipEntries(mem[i].scrapedPages)),
                      ![i].zipName = ZipNameOf(mem[i].sitemapUrl, t)]
               /\ phase' = [phase EXCEPT ![i] = "put"]
               /\ hist' = [hist EXCEPT ![i] = Started(@, 4)]
               /\ UNCHANGED <<status, log, fails, error, pos>>
  /\ UNCHANGED <<payload, output, bucket, http, crashes>>

\* Mutant: a put under a name that holds a blob keeps the blob it holds.
PutStoreKeep(i) ==
  /\ Running(i, 4, "put")
  /\ bucket' = IF \E o \in bucket : o.name = mem[i].zipName
               THEN bucket
               ELSE bucket \cup {[name |-> mem[i].zipName,
                                  data |-> mem[i].zipData, by |-> i]}
  /\ phase' = [phase EXCEPT ![i] = "stored"]
  /\ hist' = [hist EXCEPT ![i].nPut = @ + 1]
  /\ UNCHANGED <<status, payload, log, fails, error, output, pos, mem, clock, http,
                 crashes>>

\* MY_BUCKET.put(zipName, zipData) takes effect: the name now holds this blob.
PutStore(i) ==
  /\ Running(i, 4, "put")
  /\ bucket' = {o \in bucket : o.name # mem[i].zipName}
                 \cup {[name |-> mem[i].zipName, data |-> mem[i].zipData, by |-> i]}
  /\ phase' = [phase EXCEPT ![i] = "stored"]
  /\ hist' = [hist EXCEPT ![i].nPut = @ + 1]
  /\ UNCHANGED <<status, payload, log, fails, error, output, pos, mem, clock, http,
                 crashes>>

\* MY_BUCKET.put rejects.
PutFail(i) ==
  /\ Running(i, 4, "put")
  /\ Raise(i, 4, <<"put rejected">>)
  /\ hist' = [hist EXCEPT ![i] = Raised(@, 4)]
  /\ UNCHANGED <<payload, output, bucket, clock, http, crashes>>

\* Step 4: return { zipName, files, size }.
ZipReturn(i) ==
  /\ Running(i, 4, "stored")
  /\ Commit(i, 4, [zipName |-> mem[i].zipName,
                   files |-> FileList(mem[i].scrapedPages),
                   size |-> ZipLength(mem[i].zipData.zip)])
  /\ UNCHANGED <<payload, output, bucket, clock, http, crashes, hist>>

\* Step 5: Generate Result.
GenerateResult(i) ==
  /\ Running(i, 5, "call") /\ ~MemoHit(i, 5)
  /\ Commit(i, 5, [downloadUrl |-> DownloadUrlOf(mem[i].uploadResult.zipName)])
  /\ hist' = [hist EXCEPT ![i] = Started(@, 5)]
  /\ UNCHANGED <<payload, output, bucket, clock, http, crashes>>

\* return finalResult
RunReturn(i) ==
  /\ status[i] = "running" /\ pos[i] = 6
  /\ status' = [status EXCEPT ![i] = "complete"]
  /\ output' = [output EXCEPT ![i] = mem[i].finalResult]
  /\ UNCHANGED <<payload, log, fails, error, pos, phase, mem, bucket, clock, http,
                 crashes, hist>>

\* Mutant: a crash puts the instance back into the queue.
CrashRequeue(i) ==
  /\ status[i] = "running" /\ pos[i] > 1
  /\ crashes[i] < MaxCrashes
  /\ crashes' = [crashes EXCEPT ![i] = @ + 1]
  /\ status' = [status EXCEPT ![i] = "queued"]
  /\ pos' = [pos EXCEPT ![i] = 1]
  /\ phase' = [phase EXCEPT ![i] = "call"]
  /\ mem' = [mem EXCEPT ![i] = EmptyMem]
  /\ UNCHANGED <<payload, log, fails, error, output, bucket, clock, http, hist>>

\* A crash or forced restart: what run() held in memory is lost, what the
\* runtime persisted stays, and run() is executed again from its first line.
Crash(i) ==
  /\ status[i] = "running" /\ pos[i] > 1
  /\ crashes[i] < MaxCrashes
  /\ crashes' = [crashes EXCEPT ![i] = @ + 1]
  /\ pos' = [pos EXCEPT ![i] = 1]
  /\ phase' = [phase EXCEPT ![i] = "call"]
  /\ mem' = [mem EXCEPT ![i] = EmptyMem]
  /\ UNCHANGED <<status, payload, log, fails, error, output, bucket, clock, http,
                 hist>>

\* ------------------------------------------------------------ inputs
SitemapDown == [ok |-> FALSE, code |-> "500", body |-> <<>>]
SitemapOk(doc) == [ok |-> TRUE, code |-> "200", body |-> doc]
ScrapeFailed == [ok |-> FALSE, markdown |-> <<>>]
ScrapeOk(md) == [ok |-> TRUE, markdown |-> md]

\* Request bodies: no sitemapUrl, a number, the empty string, a URL.
Bodies == {Undefined, Num(42), Str(<<>>), Str(UrlA)}
\* Sitemap responses: a failure, a document without links, documents with
\* repeated links, with links in both forms, with links that share their last
\* path segment.
SitemapResponses ==
  {SitemapDown, SitemapOk(<<Text>>),
   SitemapOk(<<Loc(PageX), Text, Anchor(PageX)>>),
   SitemapOk(<<Anchor(PageQ), Loc(PageX)>>),
   SitemapOk(<<Loc(PageX), Loc(PageY)>>)}
ScrapeResponses == {ScrapeFailed, ScrapeOk(<<"# A">>), ScrapeOk(<<"# B">>)}

\* One workflow instance, with every failure the steps handle, crashes and
\* retries.
One == {1}

Next ==
  \/ \E v \in Bodies : Create(v, One)
  \/ \E v \in {Undefined} : Trigger(v, One)
  \/ \E i \in One : Start(i)
  \/ \E i \in One : Replay(i)
  \/ \E i \in One : GetSitemapUrl(i)
  \/ \E i \in One : FetchCall(i)
  \/ \E i \in One : \E r \in SitemapResponses : FetchRespond(i, r)
  \/ \E i \in One : ParseSitemap(i)
  \/ \E i \in One : ScrapeStart(i)
  \/ \E i \in One : ScrapeRequest(i)
  \/ \E i \in One : \E r \in ScrapeResponses : ScrapeRespond(i, r)
  \/ \E i \in One : ScrapePause(i)
  \/ \E i \in One : ScrapeEnd(i)
  \/ \E i \in One : ZipStart(i)
  \/ \E i \in One : PutStore(i)
  \/ \E i \in One : PutFail(i)
  \/ \E i \in One : ZipReturn(i)
  \/ \E i \in One : GenerateResult(i)
  \/ \E i \in One : RunReturn(i)
  \/ \E i \in One : Crash(i)

Spec == Init /\ [][Next]_vars

\* One instance again, with crashes and retries, on fewer inputs: a sitemap
\* that is down or lists two pages, pages that fail or succeed.
LiveSitemapResponses == {SitemapDown, SitemapOk(<<Loc(PageX), Loc(PageY)>>)}
LiveScrapeResponses == {ScrapeFailed, ScrapeOk(<<"# A">>)}

\* One move of instance i made by the runtime, by run() or by the answer of
\* an external call; a crash is not among them.
RunStep(i) ==
  \/ Start(i)
  \/ Replay(i)
  \/ GetSitemapUrl(i)
  \/ FetchCall(i)
  \/ \E r \in LiveSitemapResponses : FetchRespond(i, r)
  \/ ParseSitemap(i)
  \/ ScrapeStart(i)
  \/ ScrapeRequest(i)
  \/ \E r \in LiveScrapeResponses : ScrapeRespond(i, r)
  \/ ScrapePause(i)
  \/ ScrapeEnd(i)
  \/ ZipStart(i)
  \/ PutStore(i)
  \/ PutFail(i)
  \/ ZipReturn(i)
  \/ GenerateResult(i)
  \/ RunReturn(i)

NextLive ==
  \/ \E v \in {Str(UrlA)} : Create(v, One)
  \/ \E v \in {Undefined} : Trigger(v, One)
  \/ \E i \in One : RunStep(i)
  \/ \E i \in One : Crash(i)

\* The runtime schedules every instance that can move, every await of an
\* external call is answered, and the host comes back after a crash.
SpecFair == Init /\ [][NextLive]_vars /\ \A i \in One : WF_vars(RunStep(i))

\* Several instances side by side, each on a sitemap that may be down.
MultiBodies == {Undefined, Str(UrlA), Str(UrlB)}
MultiSitemapResponses == {SitemapDown, SitemapOk(<<Loc(PageQ)>>)}
MultiScrapeResponses == {ScrapeOk(<<"# A">>)}

NextMulti ==
  \/ \E v \in MultiBodies : Create(v, Ids)
  \/ \E i \in Ids : Start(i)
  \/ \E i \in Ids : GetSitemapUrl(i)
  \/ \E i \in Ids : FetchCall(i)
  \/ \E i \in Ids : \E r \in MultiSitemapResponses : FetchRespond(i, r)
  \/ \E i \in Ids : ParseSitemap(i)
  \/ \E i \in Ids : ScrapeStart(i)
  \/ \E i \in Ids : ScrapeRequest(i)
  \/ \E i \in Ids : \E r \in MultiScrapeResponses : ScrapeRespond(i, r)
  \/ \E i \in Ids : ScrapePause(i)
  \/ \E i \in Ids : ScrapeEnd(i)
  \/ \E i \in Ids : ZipStart(i)
  \/ \E i \in Ids : PutStore(i)
  \/ \E i \in Ids : ZipReturn(i)
  \/ \E i \in Ids : GenerateResult(i)
  \/ \E i \in Ids : RunReturn(i)

SpecMulti == Init /\ [][NextMulti]_vars

\* The handler's two endpoints beside running instances.
Queries == {Undefined, Str(<<"nope">>)} \cup {Str(IdStr(i)) : i \in Ids}

NextHttp ==
  \/ \E v \in {Undefined, Str(UrlA)} : Create(v, Ids)
  \/ \E q \in Queries : \E found \in BOOLEAN : StatusLookup(q, found)
  \/ \E i \in Ids : Start(i)
  \/ \E i \in Ids : GetSitemapUrl(i)
  \/ \E i \in Ids : FetchCall(i)
  \/ \E i \in Ids : \E r \in MultiSitemapResponses : FetchRespond(i, r)
  \/ \E i \in Ids : ParseSitemap(i)
  \/ \E i \in Ids : ScrapeStart(i)
  \/ \E i \in Ids : ScrapeRequest(i)
  \/ \E i \in Ids : \E r \in MultiScrapeResponses : ScrapeRespond(i, r)
  \/ \E i \in Ids : ScrapePause(i)
  \/ \E i \in Ids : ScrapeEnd(i)
  \/ \E i \in Ids : ZipStart(i)
  \/ \E i \in Ids : PutStore(i)
  \/ \E i \in Ids : ZipReturn(i)
  \/ \E i \in Ids : GenerateResult(i)
  \/ \E i \in Ids : RunReturn(i)

SpecHttp == Init /\ [][NextHttp]_vars

\* The same beside crashes and resumed runs.
NextStatus ==
  \/ NextHttp
  \/ \E i \in Ids : Replay(i)
  \/ \E i \in Ids : Crash(i)

SpecStatus == Init /\ [][NextStatus]_vars

\* The sitemap step alone, on every short document and on long ones with more
\* links than the cap: the instance has committed its URL and awaits the
\* sitemap's response.
Elements == {Loc(PageX), Loc(PageY), Anchor(PageX), Anchor(PageY), Text}
ShortDocs == UNION {[1..n -> Elements] : n \in 0..MaxDocLen}
\* na anchors to pages sh+1.., then nl <loc> entries of pages 1..nl.
LongDoc(nl, na, sh) ==
  [k \in 1..na |-> Anchor(Page(sh + k))] \o [k \in 1..nl |-> Loc(Page(k))]
LongDocs ==
  {LongDoc(nl, na, sh) : nl \in 0..MaxLoc, na \in 0..MaxAnchor, sh \in 0..MaxLoc}
ParseResponses == {SitemapDown} \cup {SitemapOk(d) : d \in ShortDocs \cup LongDocs}

InitParse ==
  /\ status = [i \in Ids |-> IF i = 1 THEN "running" ELSE "none"]
  /\ payload = [i \in Ids |-> IF i = 1 THEN Str(UrlA) ELSE Undefined]
  /\ log = [i \in Ids |-> [s \in Steps |->
              IF i = 1 /\ s = 1 THEN [done |-> TRUE, val |-> UrlA] ELSE NoResult]]
  /\ fails = [i \in Ids |-> 0]
  /\ error = [i \in Ids |-> <<>>]
  /\ output = [i \in Ids |-> NoOutput]
  /\ pos = [i \in Ids |-> IF i = 1 THEN 2 ELSE 0]
  /\ phase = [i \in Ids |-> IF i = 1 THEN "await" ELSE "call"]
  /\ mem = [i \in Ids |-> IF i = 1 THEN [EmptyMem EXCEPT !.sitemapUrl = UrlA]
                                   ELSE EmptyMem]
  /\ bucket = {}
  /\ clock = 0
  /\ http = [req |-> "create", arg |-> Str(UrlA), code |-> 200, id |-> 1,
             status |-> "queued"]
  /\ crashes = [i \in Ids |-> 0]
  /\ hist = [i \in Ids |-> IF i = 1
               THEN [NoHist EXCEPT !.starts[1] = 1, !.starts[2] = 1, !.nFetch = 1]
               ELSE NoHist]

NextParse ==
  \/ \E r \in ParseResponses : FetchRespond(1, r)
  \/ ParseSitemap(1)

SpecParse == InitParse /\ [][NextParse]_vars

\* The first three steps of one instance on sitemaps that list two pages or
\* more pages than the cap, with pages that fail or succeed, retries and
\* crashes.
ScrapeDocs == {<<Loc(PageX), Loc(PageY)>>, LongDoc(MaxLoc, MaxAnchor, MaxLoc)}

NextScrape ==
  \/ \E v \in {Str(UrlA)} : Create(v, One)
  \/ \E i \in One : Start(i)
  \/ \E i \in One : Replay(i)
  \/ \E i \in One : GetSitemapUrl(i)
  \/ \E i \in One : FetchCall(i)
  \/ \E i \in One : \E d \in ScrapeDocs : FetchRespond(i, SitemapOk(d))
  \/ \E i \in One : ParseSitemap(i)
  \/ \E i \in One : ScrapeStart(i)
  \/ \E i \in One : ScrapeRequest(i)
  \/ \E i \in One : \E r \in LiveScrapeResponses : ScrapeRespond(i, r)
  \/ \E i \in One : ScrapePause(i)
  \/ \E i \in One : ScrapeEnd(i)
  \/ \E i \in One : Crash(i)

SpecScrape == Init /\ [][NextScrape]_vars

\* The whole run of one instance on sitemaps that list two of these URLs:
\* pages at different depths, with the same last segment, with a trailing
\* slash, and a site's root with and without its slash.
Root == <<"https:", "/", "/", "a", ".", "com">>
RootSlash == Root \o <<"/">>
PageXSlash == PageX \o <<"/">>
NameUrls == {PageX, PageY, PageQ, PageXSlash, Root, RootSlash}
NameDocs == {<<Loc(u), Loc(v)>> : u, v \in NameUrls}

NextNames ==
  \/ \E v \in {Str(UrlA)} : Create(v, One)
  \/ \E i \in One : Start(i)
  \/ \E i \in One : GetSitemapUrl(i)
  \/ \E i \in One : FetchCall(i)
  \/ \E i \in One : \E d \in NameDocs : FetchRespond(i, SitemapOk(d))
  \/ \E i \in One : ParseSitemap(i)
  \/ \E i \in One : ScrapeStart(i)
  \/ \E i \in One : ScrapeRequest(i)
  \/ \E i \in One : \E r \in ScrapeResponses : ScrapeRespond(i, r)
  \/ \E i \in One : ScrapePause(i)
  \/ \E i \in One : ScrapeEnd(i)
  \/ \E i \in One : ZipStart(i)
  \/ \E i \in One : PutStore(i)
  \/ \E i \in One : ZipReturn(i)
  \/ \E i \in One : GenerateResult(i)
  \/ \E i \in One : RunReturn(i)

SpecNames == Init /\ [][NextNames]_vars

\* ------------------------------------------------------------ claims
\* The local of run() that holds step s's result.
LocalOf(m, s) ==
  CASE s = 1 -> m.sitemapUrl
    [] s = 2 -> m.pageUrls
    [] s = 3 -> m.scrapedPages
    [] s = 4 -> m.uploadResult
    [] s = 5 -> m.finalResult

\* C1: once a step has committed its result, its body is never invoked again
\* for that instance and its committed result never changes, across crashes,
\* resumes and retries; and whenever run() is past a step, the local it holds
\* for that step is the committed value.
C1_CommittedStepsNeverRerun ==
  /\ [][\A i \in Ids : \A s \in Steps :
          log[i][s].done =>
            /\ hist'[i].starts[s] = hist[i].starts[s]
            /\ log'[i][s] = log[i][s]]_vars
  /\ [](\A i \in Ids : \A s \in Steps :
          (status[i] = "running" /\ s < pos[i]) =>
            /\ log[i][s].done
            /\ LocalOf(mem[i], s) = log[i][s].val)

\* An instance that crashed inside Zip and Upload and completed: the upload
\* body ran twice, the three committed steps before it once each.
C1_Witness ==
  /\ status[1] = "complete" /\ crashes[1] = 1
  /\ hist[1].starts[4] = 2 /\ hist[1].raises[4] = 0
  /\ \A s \in 1..3 : hist[1].starts[s] = 1

\* C2: the steps run in their fixed order: a step's body has been invoked only
\* if every earlier step has committed, results are committed in order, the
\* body that is executing is the one run() has reached, and once a step has
\* ended the instance in errored nothing of the instance moves again: no later
\* step has been invoked and, when the failing step precedes the upload, no
\* put has been issued.
C2_StepsInOrder ==
  /\ [](\A i \in Ids : \A s \in Steps :
          /\ (hist[i].starts[s] > 0 \/ log[i][s].done) =>
                \A t \in 1..(s - 1) : log[i][t].done
          /\ log[i][s].done => hist[i].starts[s] > 0
          /\ (status[i] = "running" /\ phase[i] # "call") =>
                (pos[i] \in Steps /\ ~log[i][pos[i]].done)
          /\ (status[i] = "errored" /\ s > pos[i]) =>
                (hist[i].starts[s] = 0 /\ ~log[i][s].done)
          /\ (status[i] = "errored" /\ pos[i] < 4) => hist[i].nPut = 0)
  /\ [][\A i \in Ids :
          status[i] = "errored" =>
            /\ status'[i] = "errored"
            /\ hist'[i] = hist[i] /\ log'[i] = log[i] /\ pos'[i] = pos[i]
            /\ bucket' = bucket]_vars

\* Scrape Pages failed for every page on every attempt: the instance is
\* errored and the upload was never invoked.
C2_Witness ==
  /\ status[1] = "errored" /\ pos[1] = 3
  /\ hist[1].raises[3] = MaxRetries + 1
  /\ hist[1].starts[4] = 0 /\ hist[1].nPut = 0

\* C3: a complete instance has a result with a concrete downloadUrl and no
\* error; an errored instance has no result and a message that begins with
\* the name of the step that raised, followed by ' failed:'.
C3_CompleteHasUrlErroredHasStepMessage ==
  \A i \in Ids :
    /\ status[i] = "complete" =>
         /\ Len(output[i].downloadUrl) > Len(PublicPrefix)
         /\ error[i] = <<>>
    /\ status[i] = "errored" =>
         /\ output[i] = NoOutput
         /\ pos[i] \in Steps
         /\ hist[i].raises[pos[i]] > 0
         /\ Len(error[i]) > 3
         /\ error[i][1] = StepName[pos[i]]
         /\ error[i][2] = " failed:"

\* The put was rejected on every attempt: errored, with the upload step's name.
C3_Witness ==
  /\ status[1] = "errored"
  /\ error[1] = <<"Zip and Upload to R2", " failed:", " ", "put rejected">>

C6_SitemapFailureIsFinal ==
  /\ [](\A i \in Ids :
          hist[i].raises[2] > 0 =>
            /\ hist[i].raises[2] = 1
            /\ fails[i] = 0
            /\ status[i] = "errored"
            /\ Len(error[i]) > 3
            /\ error[i][1] = "Fetch & Parse Sitemap" /\ error[i][2] = " failed:"
            /\ error[i][4] \in {"Failed to fetch sitemap: ", "No URLs found in sitemap."}
            /\ hist[i].nReq = 0 /\ hist[i].nPut = 0
            /\ (crashes[i] = 0 => hist[i].starts[2] = 1))
  /\ [][\A i \in Ids : hist[i].raises[2] > 0 => hist'[i] = hist[i]]_vars

\* The sitemap answered without a link: errored after one attempt.
C6_Witness ==
  /\ status[1] = "errored"
  /\ hist[1].starts[2] = 1
  /\ error[1] = <<"Fetch & Parse Sitemap", " failed:", " ", "No URLs found in sitemap.">>

\* The <loc> matches followed by the anchor matches.
LocThenAnchor(xml) == Matches(xml, "loc") \o Matches(xml, "a")

\* The positions of seq that hold a string no earlier position holds.
FirstPositions(seq) ==
  {j \in 1..Len(seq) : \A m \in 1..(j - 1) : seq[m] # seq[j]}

\* The k-th first occurrence of seq.
FirstSeen(seq, k) ==
  seq[CHOOSE j \in FirstPositions(seq) :
        Cardinality({m \in FirstPositions(seq) : m <= j}) = k]

\* C5: the list Fetch & Parse Sitemap returns is the first min(10, n) of the n
\* distinct strings of the <loc> matches followed by the anchor matches, each
\* at the place of its first occurrence: no duplicates, first-seen order,
\* exactly 10 entries when n > 10.
C5_FirstTenDistinctLinks ==
  [][\A i \in Ids :
       (Running(i, 2, "parse") /\ log'[i][2].done) =>
         LET all == LocThenAnchor(mem[i].xml)
             n == Cardinality({all[k] : k \in 1..Len(all)})
             got == log'[i][2].val
         IN /\ Len(got) = (IF n < 10 THEN n ELSE 10)
            /\ \A k \in 1..Len(got) : got[k] = FirstSeen(all, k)
            /\ \A k, m \in 1..Len(got) : got[k] = got[m] => k = m
            /\ n > 10 => Len(got) = 10
            /\ hist'[i].found = n]_vars

\* A document with more than ten distinct links: ten were committed.
C5_Witness ==
  /\ log[1][2].done /\ hist[1].found > 10
  /\ Len(log[1][2].val) = 10
  /\ log[1][2].val[1] = Page(1) /\ log[1][2].val[10] = Page(10)

\* The pages of the responses that were ok, in the order received.
PagesOf(seen) ==
  LET oks == SelectSeq(seen, LAMBDA x : x.ok)
  IN [k \in 1..Len(oks) |->
        [fileName |-> FileNameOf(oks[k].url), content |-> oks[k].markdown]]

\* C7: one invocation of Scrape Pages handles the URLs of the list one after
\* the other whatever the earlier responses were, raises 'Scraping failed for
\* all pages.' exactly when every response was not ok, and otherwise returns
\* the pages of the URLs whose response was ok, in list order.
C7_ScrapeFailsOnlyWhenAllFail ==
  /\ [](\A i \in Ids :
          (status[i] = "running" /\ pos[i] = 3 /\ phase[i] # "call") =>
            /\ Len(mem[i].seen) = (IF phase[i] = "wait" THEN mem[i].idx - 1
                                   ELSE IF phase[i] = "pause" THEN mem[i].idx
                                   ELSE mem[i].idx - 1)
            /\ Len(mem[i].seen) <= Len(mem[i].pageUrls)
            /\ \A k \in 1..Len(mem[i].seen) : mem[i].seen[k].url = mem[i].pageUrls[k]
            /\ mem[i].out = PagesOf(mem[i].seen))
  /\ [][\A i \in Ids :
          (/\ status[i] = "running" /\ pos[i] = 3 /\ phase[i] # "call"
           /\ crashes'[i] = crashes[i]
           /\ (phase'[i] = "call" \/ status'[i] # "running")) =>
            LET seen == mem[i].seen
                allFailed == \A k \in 1..Len(seen) : ~seen[k].ok
                raised == hist'[i].raises[3] = hist[i].raises[3] + 1
            IN /\ Len(seen) = Len(mem[i].pageUrls)
               /\ raised <=> allFailed
               /\ raised <=> ~log'[i][3].done
               /\ (raised /\ status'[i] = "errored") =>
                     error'[i] = <<"Scrape Pages", " failed:", " ",
                                   "Scraping failed for all pages.">>
               /\ ~raised => log'[i][3].val = PagesOf(seen)]_vars

\* Of two URLs the first was refused and the second scraped: the step
\* returned the second page alone.
C7_Witness ==
  /\ log[1][2].val = <<PageX, PageQ>>
  /\ log[1][3].done
  /\ log[1][3].val = <<[fileName |-> <<"q", ".", "md">>, content |-> <<"# B">>]>>
  /\ hist[1].raises[3] = 0

\* C8: in the Scrape Pages loop a pause is taken after every extraction
\* attempt, skipped or not: no extraction request of an invocation follows
\* the previous one without a pause between them.
C8_PauseBetweenRequests ==
  [][\A i \in Ids :
       hist'[i].nReq > hist[i].nReq => mem[i].lastEv # "req"]_vars

\* The entries of the archive a committed upload stored.
StoredEntries(i) ==
  (CHOOSE o \in bucket : o.name = log[i][4].val.zipName).data.zip

\* C9: the archive Zip and Upload builds has exactly the fileNames of the page
\* list as its entry names, each page's content under its fileName, one entry
\* for each scraped page, and the reported file list names the archive's
\* entries one for one.
C9_ArchiveHoldsEveryPage ==
  \A i \in Ids :
    log[i][4].done =>
      LET pages == log[i][3].val
          entries == StoredEntries(i)
          files == log[i][4].val.files
      IN /\ {e.name : e \in entries} = {pages[k].fileName : k \in 1..Len(pages)}
         /\ \A k \in 1..Len(pages) :
              [name |-> pages[k].fileName, bytes |-> [u8 |-> pages[k].content]] \in entries
         /\ Cardinality(entries) = Len(pages)
         /\ {files[k] : k \in 1..Len(files)} = {e.name : e \in entries}
         /\ Len(files) = Cardinality(entries)

\* What C10 says of the URL: the public prefix followed by the committed
\* archive name, equal for two complete instances exactly when their names are.
UrlFollowsName(i) ==
  /\ log[i][4].done /\ log[i][5].done
  /\ output[i].downloadUrl =
       <<"https:", "/", "/", "pub-afa698db43a7418f8073ed229786891d.r2.dev", "/">>
         \o log[i][4].val.zipName
  /\ \A j \in Ids :
       status[j] = "complete" =>
         ((log[i][4].val.zipName = log[j][4].val.zipName)
            <=> (output[i].downloadUrl = output[j].downloadUrl))

\* C10 as stated: whenever an instance is complete its downloadUrl is the
\* public prefix followed by the committed archive name, the name alone
\* decides the URL, and the object store holds under that name a blob this
\* instance stored.
C10_UrlNamesOwnBlob ==
  \A i \in Ids :
    status[i] = "complete" =>
      /\ UrlFollowsName(i)
      /\ \E o \in bucket : o.name = log[i][4].val.zipName /\ o.by = i

\* C10 as amended: the same of the URL, and the object store holds a blob
\* under that name, stored by this instance or by another instance that put
\* the same name.
C10_UrlNamesStoredBlob ==
  \A i \in Ids :
    status[i] = "complete" =>
      /\ UrlFollowsName(i)
      /\ hist[i].nPut > 0
      /\ \E o \in bucket :
           /\ o.name = log[i][4].val.zipName
           /\ \/ o.by = i
              \/ /\ hist[o.by].nPut > 0
                 /\ DomainOf(payload[o.by].val) = DomainOf(payload[i].val)

\* Two complete instances for one host whose uploads read the same instant:
\* one name, one URL, and the blob under it is the one the second stored.
C10_Witness ==
  /\ status[1] = "complete" /\ status[2] = "complete"
  /\ payload[1] = Str(UrlA) /\ payload[2] = Str(UrlA)
  /\ log[1][4].val.zipName = log[2][4].val.zipName
  /\ output[1].downloadUrl = output[2].downloadUrl
  /\ \E o \in bucket : o.name = log[1][4].val.zipName /\ o.by = 2

\* ------------------------------------------------------------ C11

\* A step that is a status lookup, told by the response it leaves.
LookupStep == http' # http /\ http'.req = "status"

\* The id of the lookup just answered names no instance that was created.
NeverCreated(q) == ~Falsy(q) /\ Holding(q) = {}

\* A status lookup changes nothing but the response.
LookupChangesNothing ==
  LookupStep =>
    UNCHANGED <<status, payload, log, fails, error, output, pos, phase, mem,
                bucket, clock, crashes, hist>>

\* C11: a status lookup for an id that was never created is answered 404
\* with no id and no status, and every status lookup leaves the instances,
\* their statuses and step logs, and the object store unchanged.
C11_UnknownIdIsNotFound ==
  [][/\ LookupStep /\ NeverCreated(http'.arg) =>
          http'.code = 404 /\ http'.id = 0 /\ http'.status = "none"
     /\ LookupChangesNothing]_vars

\* What holds of every lookup for such an id: an error answer, 404 or 500,
\* with no id and no status, and no change of state.
C11_UnknownIdIsAnError ==
  [][/\ LookupStep /\ NeverCreated(http'.arg) =>
          http'.code \in {404, 500} /\ http'.id = 0 /\ http'.status = "none"
     /\ LookupChangesNothing]_vars

\* ------------------------------------------------------------ C12

Terminal(i) == status[i] \in {"complete", "errored"}

\* C12: under fair scheduling, with every external call answered and the
\* host coming back after a crash, every created instance eventually is
\* complete or errored; none stays running for ever inside a step.
C12_EveryInstanceTerminates ==
  \A i \in One : (status[i] # "none") ~> Terminal(i)

\* An instance that crashed, had its upload rejected once, and completed.
C12_Witness ==
  /\ status[1] = "complete"
  /\ crashes[1] > 0
  /\ hist[1].raises[4] > 0
  /\ hist[1].nReq > 1

\* ------------------------------------------------------------ C13

\* The steps that pass no configuration to step.do.
DefaultSteps == {1, 3, 4, 5}

\* The body of step s of instance i throws in this move.
RaiseStep(i, s) == hist'[i].raises[s] = hist[i].raises[s] + 1

\* Instance i stands before another attempt of step s.
Retrying(i, s) ==
  /\ Running(i, s, "call") /\ fails[i] > 0 /\ ~log[i][s].done

\* The body of step s of instance i is running again, or has ended again with
\* a result or with the instance errored.
Reattempted(i, s) ==
  \/ status[i] = "running" /\ pos[i] = s /\ phase[i] # "call"
  \/ log[i][s].done
  \/ status[i] = "errored" /\ pos[i] = s

\* The steps among them whose body holds a statement that can throw.
ThrowingSteps == {1, 3, 4}

\* C13: a step without retry configuration that raises while its budget
\* lasts leaves the instance running before the same, uncommitted step, and
\* that step is then attempted again; the instance becomes errored in such a
\* step only by a raise that finds the budget used up.
C13_RaiseRetriesUntilBudgetIsSpent ==
  /\ [][\A i \in One : \A s \in DefaultSteps :
          /\ RaiseStep(i, s) /\ fails[i] < MaxRetries =>
               /\ status'[i] = "running" /\ pos'[i] = s /\ phase'[i] = "call"
               /\ ~log'[i][s].done
               /\ fails'[i] = fails[i] + 1
          /\ status[i] = "running" /\ status'[i] = "errored" /\ pos[i] = s =>
               RaiseStep(i, s) /\ fails[i] >= MaxRetries
          /\ Retrying(i, s) /\ fails'[i] # fails[i] => RaiseStep(i, s)]_vars
  /\ \A i \in One : \A s \in ThrowingSteps :
       Retrying(i, s) ~> Reattempted(i, s)

\* The upload was rejected once, attempted again, and the instance completed
\* without a crash.
C13_Witness ==
  /\ status[1] = "complete" /\ crashes[1] = 0
  /\ hist[1].raises[4] = 1 /\ hist[1].starts[4] = 2

\* ------------------------------------------------------------ C14

\* The changes of status an instance may go through.
StatusMoves ==
  {<<"none", "queued">>, <<"queued", "running">>,
   <<"running", "complete">>, <<"running", "errored">>}

\* A request to the handler is answered in this move: only the handler
\* writes a response.
HandlerStep == http' # http

\* C14: the status of an instance changes only from queued to running and
\* from running to complete or errored, so complete and errored are never
\* left, whatever happens later; and a request to the handler, to create
\* another instance or to look up a status, changes no existing instance's
\* status.
C14_StatusMovesForwardOnly ==
  [][\A i \in Ids :
       /\ status'[i] # status[i] => <<status[i], status'[i]>> \in StatusMoves
       /\ HandlerStep /\ status[i] # "none" => status'[i] = status[i]]_vars

\* Instance 1 crashed and completed, a lookup reported it complete, and a
\* second instance, created by a later request, is running after a crash.
C14_Witness ==
  /\ status[1] = "complete" /\ crashes[1] > 0
  /\ http.req = "status" /\ http.id = 1 /\ http.status = "complete"
  /\ status[2] = "running" /\ crashes[2] > 0

\* ------------------------------------------------------------ C15

\* The blobs in the object store that instance i put there.
BlobsBy(i) == {o \in bucket : o.by = i}

\* C15: over any execution of one instance, retries of the upload step and
\* crashes included, the instance puts at most one blob into the object
\* store, under one name.
C15_OnePutPerInstance ==
  \A i \in One :
    /\ hist[i].nPut <= 1
    /\ Cardinality(BlobsBy(i)) <= 1
    /\ \A o \in BlobsBy(i) :
         log[i][4].done => o.name = log[i][4].val.zipName

\* ------------------------------------------------------------ C16

\* An extraction request of instance i is issued in this move.
RequestStep(i) == hist'[i].nReq = hist[i].nReq + 1

\* The body of Scrape Pages of instance i ends in this move.
ScrapeEnds(i) ==
  /\ Running(i, 3, "loop") /\ phase'[i] \notin {"loop", "wait"}
  /\ crashes' = crashes

\* C16: one invocation of Scrape Pages works on the list committed by the
\* sitemap step; each request is issued when every earlier request of the
\* invocation has been answered and handled, and it is the request for the
\* next URL of the list; when the invocation ends, the requests it issued
\* are one per URL of the list, in list order, and at most ten.
C16_OneRequestPerUrlInOrder ==
  [][\A i \in One :
       LET urls == log[i][2].val
           seen == mem[i].seen
       IN /\ RequestStep(i) =>
               /\ Running(i, 3, "loop") /\ phase'[i] = "wait"
               /\ mem[i].pageUrls = urls
               /\ mem[i].idx = Len(seen) + 1
               /\ mem[i].idx <= Len(urls)
               /\ \A k \in 1..Len(seen) : seen[k].url = urls[k]
          /\ Running(i, 3, "wait") /\ phase'[i] # "wait" /\ crashes' = crashes =>
               /\ Len(mem'[i].seen) = Len(seen) + 1
               /\ mem'[i].seen[Len(seen) + 1].url = urls[Len(seen) + 1]
               /\ hist'[i].nReq = hist[i].nReq
          /\ ScrapeEnds(i) =>
               /\ Len(seen) = Len(urls)
               /\ Len(urls) <= UrlCap
               /\ \A k \in 1..Len(urls) : seen[k].url = urls[k]]_vars

\* A sitemap with more than ten links: the invocation ended after ten
\* requests, the only ones this instance issued.
C16_Witness ==
  /\ log[1][3].done
  /\ hist[1].found > UrlCap
  /\ Len(log[1][2].val) = UrlCap
  /\ hist[1].nReq = UrlCap
  /\ Len(log[1][3].val) < UrlCap

\* ------------------------------------------------------------ C17

\* The URL of the request instance i issues in this move.
RequestedUrl(i) == mem[i].pageUrls[mem[i].idx]

\* C17: an instance submits no page to the extraction service that it has
\* already scraped successfully, whether before a crash or in this run, so
\* each URL of its list is scraped successfully at most once; and once the
\* sitemap step is committed the sitemap is not fetched again.
C17_NoPageScrapedTwice ==
  [][\A i \in One :
       /\ RequestStep(i) => RequestedUrl(i) \notin hist[i].scraped
       /\ hist'[i].scraped # hist[i].scraped =>
            Cardinality(hist'[i].scraped) = Cardinality(hist[i].scraped) + 1
       /\ hist'[i].nFetch # hist[i].nFetch => ~log[i][2].done]_vars

\* ------------------------------------------------------------ C18

\* Everything of instance j but the object store and the clock.
OwnState(j) ==
  <<status[j], payload[j], log[j], fails[j], error[j], output[j], pos[j],
    phase[j], mem[j], hist[j]>>

\* What instance i would commit running alone: each result is computed from
\* the instance's own payload, its own earlier results and the answers of
\* the external calls (the sitemap, the pages, the instant of the upload).
OwnResults(i) ==
  /\ log[i][1].done => log[i][1].val = payload[i].val
  /\ log[i][2].done =>
       \E r \in MultiSitemapResponses :
         r.ok /\ log[i][2].val = Slice(AllUrls(r.body), UrlCap)
  /\ log[i][3].done =>
       /\ Len(log[i][3].val) = Len(log[i][2].val)
       /\ \A k \in 1..Len(log[i][3].val) :
            /\ log[i][3].val[k].fileName = FileNameOf(log[i][2].val[k])
            /\ \E r \in MultiScrapeResponses :
                 r.ok /\ log[i][3].val[k].content = r.markdown
  /\ log[i][4].done =>
       /\ \E t \in 0..MaxClock :
            log[i][4].val.zipName = ZipNameOf(log[i][1].val, t)
       /\ log[i][4].val.files = FileList(log[i][3].val)
       /\ log[i][4].val.size = ZipLength(ZipEntries(log[i][3].val))
  /\ log[i][5].done =>
       log[i][5].val.downloadUrl = DownloadUrlOf(log[i][4].val.zipName)
  /\ status[i] = "complete" => output[i] = log[i][5].val

\* C18: under any interleaving, a move changes the payload, step log,
\* results and status of at most one instance, and what an instance commits
\* (link list, scraped pages, download result) is what it would commit
\* alone on the same external answers; only the object store is shared.
C18_InstancesDoNotInterfere ==
  /\ [][\E i \in Ids : \A j \in Ids \ {i} : OwnState(j)' = OwnState(j)]_vars
  /\ [](\A i \in Ids : OwnResults(i))

\* Two instances for different hosts, interleaved: the second is complete
\* while the first has put its archive and not yet committed the upload.
C18_Witness ==
  /\ payload[1] = Str(UrlA) /\ payload[2] = Str(UrlB)
  /\ Running(1, 4, "stored")
  /\ status[2] = "complete"
  /\ Cardinality(bucket) = 2
  /\ output[2].downloadUrl = DownloadUrlOf(ZipNameOf(UrlB, clock))

\* ------------------------------------------------------------ C19

\* The hosts of the two sitemap URLs, dots replaced, written out.
HostUnderscored(url) ==
  IF url = UrlA THEN <<"a", "_", "com">> ELSE <<"b", "_", "org">>

\* The instant t as it appears in a name, written out.
Stamp(t) == <<"2025-01-01T00", "-", "00", "-", ToString(t), "-", "000Z">>

\* C19: the archive name is made of the sitemap URL's host, dots replaced
\* by '_', and the instant of the upload, and of nothing that tells
\* instances apart; a put replaces whatever blob the name held; so two
\* instances for one host that upload at the same instant use one name, the
\* later put overwrites the earlier blob, and both complete with the same
\* downloadUrl.
C19_SameHostSameInstantCollide ==
  /\ [][\A i \in Ids :
          /\ Running(i, 4, "call") /\ phase'[i] = "put" =>
               mem'[i].zipName =
                 HostUnderscored(payload[i].val) \o <<"_">> \o Stamp(clock')
                   \o <<".", "zip">>
          /\ Running(i, 4, "put") /\ phase'[i] = "stored" =>
               {o \in bucket' : o.name = mem[i].zipName} =
                 {[name |-> mem[i].zipName, data |-> mem[i].zipData, by |-> i]}]_vars
  /\ [](\A i, j \in Ids :
          /\ log[i][4].done /\ log[j][4].done
          /\ payload[i] = payload[j]
          /\ \E t \in 0..MaxClock :
               /\ log[i][4].val.zipName = ZipNameOf(payload[i].val, t)
               /\ log[j][4].val.zipName = ZipNameOf(payload[j].val, t)
          => /\ log[i][4].val.zipName = log[j][4].val.zipName
             /\ Cardinality({o \in bucket : o.name = log[i][4].val.zipName}) = 1
             /\ status[i] = "complete" /\ status[j] = "complete" =>
                  output[i].downloadUrl = output[j].downloadUrl)

\* Two instances for a.com uploaded at the same instant, the first one
\* last: one blob, stored by instance 1, and one downloadUrl for both.
C19_Witness ==
  /\ status[1] = "complete" /\ status[2] = "complete"
  /\ payload[1] = Str(UrlA) /\ payload[2] = Str(UrlA)
  /\ hist[1].nPut = 1 /\ hist[2].nPut = 1
  /\ bucket = {[name |-> log[2][4].val.zipName,
                data |-> ZipSync(ZipEntries(log[1][3].val)), by |-> 1]}
  /\ output[1].downloadUrl = output[2].downloadUrl

\* ------------------------------------------------------------ C20

\* The non-empty segments of the path of an absolute URL: what follows the
\* scheme, the empty piece between the two slashes, and the host.
PathSegments(url) ==
  LET pieces == Split(url, "/")
  IN SelectSeq(SubSeq(pieces, 4, Len(pieces)), LAMBDA x : x # <<>>)

\* The name the page of url is to get: its last path segment, or index.
NameByPath(url) ==
  LET segs == PathSegments(url)
  IN (IF segs = <<>> THEN <<"index">> ELSE segs[Len(segs)]) \o <<".", "md">>

\* The content the archive is to hold under a name: that of the last page
\* of the list with this name.
LastContent(pages, name) ==
  LET ks == {k \in 1..Len(pages) : pages[k].fileName = name}
  IN pages[CHOOSE k \in ks : \A l \in ks : l <= k].content

\* C20: the page of a URL is named after the URL's last non-empty path
\* segment, and index.md when the path has no segment (a URL of scheme and
\* host only, with or without the closing slash); pages of different URLs
\* with the same last segment bear the same name, and the archive holds
\* under that name the content of the later one.
C20_FileNameIsLastPathSegment ==
  /\ [][\A i \in One :
          Running(i, 3, "wait") /\ Len(mem'[i].out) = Len(mem[i].out) + 1 =>
            mem'[i].out[Len(mem'[i].out)].fileName = NameByPath(RequestedUrl(i))]_vars
  /\ [](\A o \in bucket :
          LET pages == log[o.by][3].val
          IN /\ {e.name : e \in o.data.zip} = {pages[k].fileName : k \in 1..Len(pages)}
             /\ \A e \in o.data.zip : e.bytes = StrToU8(LastContent(pages, e.name)))

====
